---- MODULE Spec2Model ----
(***************************************************************************)
(* Storage backends of littlefs-python (src/src/littlefs/context.py):      *)
(* UserContext (bytearray), UserContextWinDisk (win32file) and             *)
(* UserContextLinuxDisk (os.lseek / os.read / os.write / os.fsync).        *)
(* One backend instance is followed from before its construction to after  *)
(* its finalizer; the kind of the instance is chosen in Init.              *)
(***************************************************************************)
EXTENDS Integers, Sequences, FiniteSets, TLC

\* ---------------------------------------------------------------- bounds
\* cfg.block_size and cfg.block_count of the LFSConfig passed to every call.
BlockSize == 2
BlockCount == 2

\* ------------------------------------------------------------- constants
\* The erased-state byte, 0xFF.
ErasedByte == 255
\* A zero byte: what ctypes.create_string_buffer(size) is filled with.
ZeroByte == 0

\* Byte values the engine programs: one erased, one not.
ByteVals == {ZeroByte, ErasedByte}

None == "None"
Module == "module"
Handle == "handle"
INVALID_HANDLE_VALUE == "INVALID_HANDLE_VALUE"

Kinds == {"UserContext", "UserContextWinDisk", "UserContextLinuxDisk"}
RawKinds == {"UserContextWinDisk", "UserContextLinuxDisk"}

VARIABLES
    kind,        \* the class of the instance
    win32file,   \* module global: Module or None (context.py:82-85)
    fcntl,       \* module global: Module or None (context.py:170-175)
    os,          \* module global: Module or None (context.py:170-175)
    phase,       \* "Unopened", "Opened", "Failed" (__init__ raised), "Closed"
    device,      \* self.device: None, Handle or INVALID_HANDLE_VALUE
    medium,      \* self.buffer (UserContext) or the bytes of the disk
    cursor,      \* file position of the open device
    openCalls,   \* calls of os.open / win32file.CreateFile
    closeCalls,  \* calls of os.close / win32file.CloseHandle
    staleUse,    \* a read/prog/erase/sync used the handle after its release
    inRange,     \* every read/prog/erase call so far was in range
    last         \* the last call: its arguments, what the device did, its outcome

vars == <<kind, win32file, fcntl, os, phase, device, medium, cursor,
          openCalls, closeCalls, staleUse, inRange, last>>

\* -------------------------------------------------------------- helpers
Min(a, b) == IF a < b THEN a ELSE b
Max(a, b) == IF a > b THEN a ELSE b

\* [v] * n
Repeat(v, n) == [i \in 1..n |-> v]

\* The payloads the engine programs: the byte strings of length 1..maxlen.
Payloads(maxlen) == UNION {[1..len -> ByteVals] : len \in 1..maxlen}

\* buf[start:end] for 0 <= start, 0 <= end: Python clamps both to len(buf).
SliceGet(buf, start, end) ==
    LET lo == Min(start, Len(buf))
        hi == Min(end, Len(buf))
    IN  IF lo >= hi THEN <<>> ELSE SubSeq(buf, lo + 1, hi)

\* buf[start:end] = data for 0 <= start, 0 <= end: the clamped slice is
\* replaced by data, whatever the two lengths are.
SliceSet(buf, start, end, data) ==
    LET lo == Min(start, Len(buf))
        hi == Max(lo, Min(end, Len(buf)))
    IN  SubSeq(buf, 1, lo) \o data \o SubSeq(buf, hi + 1, Len(buf))

\* The device after a write of the first n bytes of data at position pos.
DevWrite(disk, pos, data, n) ==
    [i \in 1..Len(disk) |->
        IF i > pos /\ i <= pos + n THEN data[i - pos] ELSE disk[i]]

\* The n bytes the device holds from position pos on.
DevRead(disk, pos, n) == [i \in 1..n |-> disk[pos + i]]

\* Outcomes of one positioned transfer of len bytes: the number of bytes
\* transferred (len: in full, less: a short transfer), or -1: the call raised.
Transfers(len) == (0..len) \cup {-1}

IoOf(n, len) == IF n = -1 THEN "fail" ELSE IF n = len THEN "full" ELSE "short"

Call(op, block, off, size, data, ret, exc, io) ==
    [op |-> op, block |-> block, off |-> off, size |-> size, data |-> data,
     ret |-> ret, exc |-> exc, io |-> io]

NoCall == Call("none", 0, 0, 0, <<>>, 0, "none", "none")

\* The request is within the medium as the configuration declares it.
InRange(block, off, size) == block < BlockCount /\ off + size <= BlockSize

\* The instance of class k is constructed and alive, and the engine, which
\* serializes its calls, holds no outcome it has not taken yet.
Ready(k) == kind = k /\ phase = "Opened" /\ last = NoCall

\* ----------------------------------------------------------------- Init
Init ==
    /\ kind \in Kinds
    /\ \/ /\ kind = "UserContextWinDisk"
          /\ win32file \in {Module, None}
          /\ fcntl = None /\ os = None
       \/ /\ kind = "UserContextLinuxDisk"
          /\ win32file = None
          /\ fcntl \in {Module, None}
          /\ os = fcntl
       \/ /\ kind = "UserContext"
          /\ win32file = None /\ fcntl = Module /\ os = Module
    /\ phase = "Unopened"
    /\ device = None
    /\ medium = IF kind = "UserContext" THEN <<>>
                ELSE Repeat(ErasedByte, BlockSize * BlockCount)
    /\ cursor = 0
    /\ openCalls = 0
    /\ closeCalls = 0
    /\ staleUse = FALSE
    /\ inRange = TRUE
    /\ last = NoCall

\* ------------------------------------------------ UserContext (bytearray)
\* The engine's requests to the in-memory backend.  It is the engine that
\* keeps them in range (the backend checks nothing), so requests that run
\* one byte over the end of their block are drawn too: they reach into the
\* next block, and after the last block they lengthen the bytearray.
MemBlocks == 0..(BlockCount - 1)
MemOffs == 0..(BlockSize - 1)
MemSizes(off) == 1..(BlockSize + 1 - off)

\* __init__(buffsize) with buffsize = block_size * block_count.
UserContext_init ==
    /\ kind = "UserContext"
    /\ phase = "Unopened"
    /\ medium' = Repeat(ErasedByte, BlockSize * BlockCount)
    /\ phase' = "Opened"
    /\ last' = Call("init", 0, 0, 0, <<>>, 0, "none", "none")
    /\ UNCHANGED <<kind, win32file, fcntl, os, device, cursor, openCalls,
                   closeCalls, staleUse, inRange>>

\* What read returns: self.buffer[start:end].
UserContext_read_data(buf, block, off, size) ==
    LET start == block * BlockSize + off
        end == start + size
    IN  SliceGet(buf, start, end)

UserContext_read(block, off, size) ==
    /\ Ready("UserContext")
    /\ last' = Call("read", block, off, size,
                    UserContext_read_data(medium, block, off, size),
                    0, "none", "none")
    /\ inRange' = (inRange /\ InRange(block, off, size))
    /\ UNCHANGED <<kind, win32file, fcntl, os, phase, device, medium, cursor,
                   openCalls, closeCalls, staleUse>>

\* self.buffer after prog: self.buffer[start:end] = data.
UserContext_prog_buffer(buf, block, off, data) ==
    LET start == block * BlockSize + off
        end == start + Len(data)
    IN  SliceSet(buf, start, end, data)

UserContext_prog(block, off, data) ==
    /\ Ready("UserContext")
    /\ medium' = UserContext_prog_buffer(medium, block, off, data)
    /\ last' = Call("prog", block, off, Len(data), data, 0, "none", "none")
    /\ inRange' = (inRange /\ InRange(block, off, Len(data)))
    /\ UNCHANGED <<kind, win32file, fcntl, os, phase, device, cursor,
                   openCalls, closeCalls, staleUse>>

\* An erase that writes one byte more than the block holds.
UserContext_erase_buffer_long(buf, block) ==
    LET start == block * BlockSize
        end == start + BlockSize + 1
    IN  SliceSet(buf, start, end, Repeat(ErasedByte, BlockSize + 1))

\* self.buffer after erase: self.buffer[start:end] = [0xFF] * cfg.block_size.
UserContext_erase_buffer(buf, block) ==
    LET start == block * BlockSize
        end == start + BlockSize
    IN  SliceSet(buf, start, end, Repeat(ErasedByte, BlockSize))

UserContext_erase(block) ==
    /\ Ready("UserContext")
    /\ medium' = UserContext_erase_buffer(medium, block)
    /\ last' = Call("erase", block, 0, BlockSize, <<>>, 0, "none", "none")
    /\ inRange' = (inRange /\ InRange(block, 0, BlockSize))
    /\ UNCHANGED <<kind, win32file, fcntl, os, phase, device, cursor,
                   openCalls, closeCalls, staleUse>>

\* A sync that reports an error when the bytearray has changed its length.
UserContext_sync_checked ==
    /\ Ready("UserContext")
    /\ last' = Call("sync", 0, 0, 0, <<>>,
                    IF Len(medium) = BlockSize * BlockCount THEN 0 ELSE -1,
                    "none", "none")
    /\ UNCHANGED <<kind, win32file, fcntl, os, phase, device, medium, cursor,
                   openCalls, closeCalls, staleUse, inRange>>

UserContext_sync ==
    /\ Ready("UserContext")
    /\ last' = Call("sync", 0, 0, 0, <<>>, 0, "none", "none")
    /\ UNCHANGED <<kind, win32file, fcntl, os, phase, device, medium, cursor,
                   openCalls, closeCalls, staleUse, inRange>>

\* ------------------------------------------ the raw-disk backends' requests
\* The engine's requests to a raw-disk backend are in range: the disk is
\* block_size * block_count bytes long.
DiskBlocks == 0..(BlockCount - 1)
DiskOffs == 0..(BlockSize - 1)
DiskSizes(off) == 1..(BlockSize - off)

\* A raw-disk call uses self.device.
RawCall(k) ==
    /\ Ready(k)
    /\ staleUse' = (staleUse \/ closeCalls > 0)
    /\ UNCHANGED <<kind, win32file, fcntl, os, phase, device, openCalls,
                   closeCalls, inRange>>

\* ---------------------------------------------------- UserContextLinuxDisk
\* A constructor that opens the device before it looks at the modules.
UserContextLinuxDisk_init_open_first(opened) ==
    /\ kind = "UserContextLinuxDisk"
    /\ phase = "Unopened"
    /\ openCalls' = openCalls + 1
    /\ device' = IF opened THEN Handle ELSE None
    /\ IF ~opened
       THEN /\ phase' = "Failed"
            /\ last' = Call("init", 0, 0, 0, <<>>, 0, "OSError", "fail")
       ELSE IF fcntl = None \/ os = None
       THEN /\ phase' = "Failed"
            /\ last' = Call("init", 0, 0, 0, <<>>, 0, "ImportError", "none")
       ELSE /\ phase' = "Opened"
            /\ last' = Call("init", 0, 0, 0, <<>>, 0, "none", "full")
    /\ UNCHANGED <<kind, win32file, fcntl, os, medium, cursor, closeCalls,
                   staleUse, inRange>>

\* __init__(disk_path); opened: os.open returns a descriptor, else it raises
\* (it never returns None, so the IOError of line 187 is not raised).
UserContextLinuxDisk_init(opened) ==
    /\ kind = "UserContextLinuxDisk"
    /\ phase = "Unopened"
    /\ IF fcntl = None \/ os = None
       THEN /\ device' = None
            /\ phase' = "Failed"
            /\ last' = Call("init", 0, 0, 0, <<>>, 0, "ImportError", "none")
            /\ UNCHANGED openCalls
       ELSE /\ openCalls' = openCalls + 1
            /\ IF opened
               THEN /\ device' = Handle
                    /\ phase' = "Opened"
                    /\ last' = Call("init", 0, 0, 0, <<>>, 0, "none", "full")
               ELSE /\ device' = None
                    /\ phase' = "Failed"
                    /\ last' = Call("init", 0, 0, 0, <<>>, 0, "OSError", "fail")
    /\ UNCHANGED <<kind, win32file, fcntl, os, medium, cursor, closeCalls,
                   staleUse, inRange>>

\* What read returns when os.read transfers n <= size bytes.
UserContextLinuxDisk_read_data(disk, block, off, size, n) ==
    LET start == block * BlockSize + off
    IN  DevRead(disk, start, n)

\* read: os.lseek, then os.read, which returns n <= size bytes or raises.
UserContextLinuxDisk_read(block, off, size, n) ==
    /\ RawCall("UserContextLinuxDisk")
    /\ LET start == block * BlockSize + off
       IN  IF n = -1
           THEN /\ cursor' = start
                /\ last' = Call("read", block, off, size, <<>>, 0, "OSError", "fail")
           ELSE /\ cursor' = start + n
                /\ last' = Call("read", block, off, size,
                                UserContextLinuxDisk_read_data(medium, block, off, size, n),
                                0, "none", IoOf(n, size))
    /\ UNCHANGED medium

\* A prog without its os.lseek: it writes where the last call left the cursor.
UserContextLinuxDisk_prog_noseek(block, off, data, n) ==
    /\ RawCall("UserContextLinuxDisk")
    /\ IF n = -1
       THEN /\ UNCHANGED <<cursor, medium>>
            /\ last' = Call("prog", block, off, Len(data), data, 0, "OSError", "fail")
       ELSE /\ cursor' = cursor + n
            /\ medium' = DevWrite(medium, cursor, data, n)
            /\ last' = Call("prog", block, off, Len(data), data, 0, "none",
                            IoOf(n, Len(data)))

\* prog: os.lseek, then os.write, which writes n <= len(data) bytes or raises;
\* the count it returns is dropped.
UserContextLinuxDisk_prog(block, off, data, n) ==
    /\ RawCall("UserContextLinuxDisk")
    /\ LET start == block * BlockSize + off
       IN  IF n = -1
           THEN /\ cursor' = start
                /\ UNCHANGED medium
                /\ last' = Call("prog", block, off, Len(data), data, 0, "OSError", "fail")
           ELSE /\ cursor' = start + n
                /\ medium' = DevWrite(medium, start, data, n)
                /\ last' = Call("prog", block, off, Len(data), data, 0, "none",
                                IoOf(n, Len(data)))

UserContextLinuxDisk_erase(block, n) ==
    /\ RawCall("UserContextLinuxDisk")
    /\ LET start == block * BlockSize
           data == Repeat(ErasedByte, BlockSize)
       IN  IF n = -1
           THEN /\ cursor' = start
                /\ UNCHANGED medium
                /\ last' = Call("erase", block, 0, BlockSize, <<>>, 0, "OSError", "fail")
           ELSE /\ cursor' = start + n
                /\ medium' = DevWrite(medium, start, data, n)
                /\ last' = Call("erase", block, 0, BlockSize, <<>>, 0, "none",
                                IoOf(n, BlockSize))

\* sync: os.fsync, which returns or raises.
UserContextLinuxDisk_sync(flushed) ==
    /\ RawCall("UserContextLinuxDisk")
    /\ last' = IF flushed THEN Call("sync", 0, 0, 0, <<>>, 0, "none", "full")
               ELSE Call("sync", 0, 0, 0, <<>>, 0, "OSError", "fail")
    /\ UNCHANGED <<medium, cursor>>

\* A finalizer whose test of self.device is inverted.
UserContextLinuxDisk_del_inverted ==
    /\ kind = "UserContextLinuxDisk"
    /\ phase \in {"Opened", "Failed"}
    /\ closeCalls' = IF device = None THEN closeCalls + 1 ELSE closeCalls
    /\ phase' = "Closed"
    /\ last' = Call("del", 0, 0, 0, <<>>, 0, "none", "none")
    /\ UNCHANGED <<kind, win32file, fcntl, os, device, medium, cursor,
                   openCalls, staleUse, inRange>>

\* __del__: run once by the collector when the instance is unreachable, also
\* when __init__ raised.
UserContextLinuxDisk_del ==
    /\ kind = "UserContextLinuxDisk"
    /\ phase \in {"Opened", "Failed"}
    /\ closeCalls' = IF device # None THEN closeCalls + 1 ELSE closeCalls
    /\ phase' = "Closed"
    /\ last' = Call("del", 0, 0, 0, <<>>, 0, "none", "none")
    /\ UNCHANGED <<kind, win32file, fcntl, os, device, medium, cursor,
                   openCalls, staleUse, inRange>>

\* ------------------------------------------------------ UserContextWinDisk
\* What win32file.CreateFile does: it returns a handle, returns
\* INVALID_HANDLE_VALUE (the case line 96 tests for), or raises.
CreateFileOutcomes == {"handle", "invalid", "raise"}

UserContextWinDisk_init(outcome) ==
    /\ kind = "UserContextWinDisk"
    /\ phase = "Unopened"
    /\ IF win32file = None
       THEN /\ device' = None
            /\ phase' = "Failed"
            /\ last' = Call("init", 0, 0, 0, <<>>, 0, "ImportError", "none")
            /\ UNCHANGED openCalls
       ELSE /\ openCalls' = openCalls + 1
            /\ CASE outcome = "handle" ->
                      /\ device' = Handle
                      /\ phase' = "Opened"
                      /\ last' = Call("init", 0, 0, 0, <<>>, 0, "none", "full")
                 [] outcome = "invalid" ->
                      /\ device' = INVALID_HANDLE_VALUE
                      /\ phase' = "Failed"
                      /\ last' = Call("init", 0, 0, 0, <<>>, 0, "IOError", "fail")
                 [] OTHER ->
                      /\ device' = None
                      /\ phase' = "Failed"
                      /\ last' = Call("init", 0, 0, 0, <<>>, 0, "pywintypes.error", "fail")
    /\ UNCHANGED <<kind, win32file, fcntl, os, medium, cursor, closeCalls,
                   staleUse, inRange>>

\* What read returns when ReadFile fills n <= size bytes of the zero-filled
\* buffer of size bytes: buffer.raw, all of the buffer.
UserContextWinDisk_read_data(disk, block, off, size, n) ==
    LET start == block * BlockSize + off
    IN  DevRead(disk, start, n) \o Repeat(ZeroByte, size - n)

\* read: SetFilePointer, then ReadFile into a zero-filled buffer of size
\* bytes, of which it fills n <= size, or raises; buffer.raw is returned.
UserContextWinDisk_read(block, off, size, n) ==
    /\ RawCall("UserContextWinDisk")
    /\ LET start == block * BlockSize + off
       IN  IF n = -1
           THEN /\ cursor' = start
                /\ last' = Call("read", block, off, size, <<>>, 0,
                                "pywintypes.error", "fail")
           ELSE /\ cursor' = start + n
                /\ last' = Call("read", block, off, size,
                                UserContextWinDisk_read_data(medium, block, off, size, n),
                                0, "none", IoOf(n, size))
    /\ UNCHANGED medium

\* prog: SetFilePointer, then WriteFile, which writes n <= len(data) bytes or
\* raises; what it returns is dropped.
UserContextWinDisk_prog(block, off, data, n) ==
    /\ RawCall("UserContextWinDisk")
    /\ LET start == block * BlockSize + off
       IN  IF n = -1
           THEN /\ cursor' = start
                /\ UNCHANGED medium
                /\ last' = Call("prog", block, off, Len(data), data, 0,
                                "pywintypes.error", "fail")
           ELSE /\ cursor' = start + n
                /\ medium' = DevWrite(medium, start, data, n)
                /\ last' = Call("prog", block, off, Len(data), data, 0, "none",
                                IoOf(n, Len(data)))

UserContextWinDisk_erase(block, n) ==
    /\ RawCall("UserContextWinDisk")
    /\ LET start == block * BlockSize
           data == Repeat(ErasedByte, BlockSize)
       IN  IF n = -1
           THEN /\ cursor' = start
                /\ UNCHANGED medium
                /\ last' = Call("erase", block, 0, BlockSize, <<>>, 0,
                                "pywintypes.error", "fail")
           ELSE /\ cursor' = start + n
                /\ medium' = DevWrite(medium, start, data, n)
                /\ last' = Call("erase", block, 0, BlockSize, <<>>, 0, "none",
                                IoOf(n, BlockSize))

\* sync: FlushFileBuffers, which returns or raises.
UserContextWinDisk_sync(flushed) ==
    /\ RawCall("UserContextWinDisk")
    /\ last' = IF flushed THEN Call("sync", 0, 0, 0, <<>>, 0, "none", "full")
               ELSE Call("sync", 0, 0, 0, <<>>, 0, "pywintypes.error", "fail")
    /\ UNCHANGED <<medium, cursor>>

\* __del__: run once by the collector when the instance is unreachable, also
\* when __init__ raised.
UserContextWinDisk_del ==
    /\ kind = "UserContextWinDisk"
    /\ phase \in {"Opened", "Failed"}
    /\ closeCalls' = IF device # None THEN closeCalls + 1 ELSE closeCalls
    /\ phase' = "Closed"
    /\ last' = Call("del", 0, 0, 0, <<>>, 0, "none", "none")
    /\ UNCHANGED <<kind, win32file, fcntl, os, device, medium, cursor,
                   openCalls, staleUse, inRange>>

\* -------------------------------------------------------------- the engine
\* The call has returned (or raised) and the engine takes its outcome; it
\* issues its next call after that.
Return ==
    /\ phase \in {"Opened", "Failed"}
    /\ last # NoCall
    /\ last' = NoCall
    /\ UNCHANGED <<kind, win32file, fcntl, os, phase, device, medium, cursor,
                   openCalls, closeCalls, staleUse, inRange>>

Next ==
    \/ UserContext_init
    \/ /\ Ready("UserContext")
       /\ \E block \in MemBlocks, off \in MemOffs :
             \E size \in MemSizes(off) : UserContext_read(block, off, size)
    \/ /\ Ready("UserContext")
       /\ \E block \in MemBlocks, off \in MemOffs :
             \E data \in Payloads(BlockSize + 1 - off) :
                UserContext_prog(block, off, data)
    \/ /\ Ready("UserContext")
       /\ \E block \in MemBlocks : UserContext_erase(block)
    \/ UserContext_sync
    \/ \E opened \in BOOLEAN : UserContextLinuxDisk_init(opened)
    \/ /\ Ready("UserContextLinuxDisk")
       /\ \E block \in DiskBlocks, off \in DiskOffs :
             \E size \in DiskSizes(off) : \E n \in Transfers(size) :
                UserContextLinuxDisk_read(block, off, size, n)
    \/ /\ Ready("UserContextLinuxDisk")
       /\ \E block \in DiskBlocks, off \in DiskOffs :
             \E data \in Payloads(BlockSize - off) :
                \E n \in Transfers(Len(data)) :
                   UserContextLinuxDisk_prog(block, off, data, n)
    \/ /\ Ready("UserContextLinuxDisk")
       /\ \E block \in DiskBlocks : \E n \in Transfers(BlockSize) :
             UserContextLinuxDisk_erase(block, n)
    \/ \E flushed \in BOOLEAN : UserContextLinuxDisk_sync(flushed)
    \/ UserContextLinuxDisk_del
    \/ \E outcome \in CreateFileOutcomes : UserContextWinDisk_init(outcome)
    \/ /\ Ready("UserContextWinDisk")
       /\ \E block \in DiskBlocks, off \in DiskOffs :
             \E size \in DiskSizes(off) : \E n \in Transfers(size) :
                UserContextWinDisk_read(block, off, size, n)
    \/ /\ Ready("UserContextWinDisk")
       /\ \E block \in DiskBlocks, off \in DiskOffs :
             \E data \in Payloads(BlockSize - off) :
                \E n \in Transfers(Len(data)) :
                   UserContextWinDisk_prog(block, off, data, n)
    \/ /\ Ready("UserContextWinDisk")
       /\ \E block \in DiskBlocks : \E n \in Transfers(BlockSize) :
             UserContextWinDisk_erase(block, n)
    \/ \E flushed \in BOOLEAN : UserContextWinDisk_sync(flushed)
    \/ UserContextWinDisk_del
    \/ Return

Spec == Init /\ [][Next]_vars

\* ================================================================ properties
Ops == {"read", "prog", "erase", "sync"}

\* The backend needs a platform module that the import at module load did
\* not find.
ModuleMissing ==
    \/ kind = "UserContextWinDisk" /\ win32file = None
    \/ kind = "UserContextLinuxDisk" /\ (fcntl = None \/ os = None)

\* What read(block, off, size) returns in the present state when the device
\* transfers n bytes.
ReadData(block, off, size, n) ==
    CASE kind = "UserContext" ->
            UserContext_read_data(medium, block, off, size)
      [] kind = "UserContextLinuxDisk" ->
            UserContextLinuxDisk_read_data(medium, block, off, size, n)
      [] kind = "UserContextWinDisk" ->
            UserContextWinDisk_read_data(medium, block, off, size, n)

\* The bytes of the medium at absolute offsets start .. start + size - 1.
MediumBytes(start, size) == [i \in 1..size |-> medium[start + i]]

\* C1: on every backend, after in-range calls only, a prog(block, off, data)
\* that returned 0 and is immediately followed by read(block, off, len(data))
\* makes that read return exactly data, however many bytes the device hands
\* to the read.
C1_ReadAfterProg ==
    (last.op = "prog" /\ last.exc = "none" /\ last.ret = 0 /\ inRange)
        => \A n \in 0..last.size :
              ReadData(last.block, last.off, last.size, n) = last.data

\* C2: on every backend, once erase(block) has returned 0 the whole block
\* holds 0xFF, and read(block, 0, block_size), transferred in full, returns
\* block_size bytes of 0xFF.
C2_EraseWholeBlock ==
    (last.op = "erase" /\ last.exc = "none" /\ last.ret = 0)
        => /\ \A i \in 1..BlockSize :
                 medium[last.block * BlockSize + i] = ErasedByte
           /\ ReadData(last.block, 0, BlockSize, BlockSize)
                 = Repeat(ErasedByte, BlockSize)

\* C3: a raw-disk instance opens its device at most once; a handle that was
\* opened is released exactly once, by the finalizer, never twice and never
\* not at all; and no read/prog/erase/sync uses the handle after its release.
C3_HandleLifecycle ==
    kind \in RawKinds =>
        /\ openCalls <= 1
        /\ device = Handle =>
              /\ openCalls = 1
              /\ closeCalls <= 1
              /\ (phase = "Closed") <=> (closeCalls = 1)
        /\ phase = "Opened" => device = Handle
        /\ ~staleUse

\* An opened handle was used for a transfer and then released.
C3_Witness ==
    /\ kind \in RawKinds
    /\ phase = "Closed"
    /\ device = Handle
    /\ closeCalls = 1
    /\ cursor > 0

\* C4: when the platform module of a raw-disk backend is missing, the
\* constructor raises the capability error (ImportError), the open call is
\* never made and self.device stays None; the instance is never usable.
C4_CapabilityError ==
    ModuleMissing =>
        /\ openCalls = 0
        /\ device = None
        /\ phase \in {"Unopened", "Failed", "Closed"}
        /\ last.op = "init" => last.exc = "ImportError"

\* The constructor has just raised the capability error.
C4_Witness ==
    /\ ModuleMissing
    /\ phase = "Failed"
    /\ last.op = "init"
    /\ last.exc = "ImportError"

\* C5: when the device of a raw-disk backend cannot be opened, the
\* constructor raises a device-open error, the instance is not usable, and
\* the finalizer calls no release primitive.
C5_FailedOpenNoRelease ==
    (kind \in RawKinds /\ openCalls = 1 /\ device # Handle) =>
        /\ phase \in {"Failed", "Closed"}
        /\ last.op = "init" =>
              last.exc \in {"OSError", "IOError", "pywintypes.error"}
        /\ closeCalls = 0

\* C6: on every backend an in-range read that returns returns exactly size
\* bytes, the bytes of the medium at block*block_size + off and after; a
\* short transfer is not returned shortened or padded.
C6_ReadExact ==
    (last.op = "read" /\ last.exc = "none"
        /\ InRange(last.block, last.off, last.size))
        => /\ Len(last.data) = last.size
           /\ last.data = MediumBytes(last.block * BlockSize + last.off, last.size)

\* C7: when the write or the flush of a raw-disk prog, erase or sync fails,
\* the call returns a negative status.
C7_FailureStatus ==
    (kind \in RawKinds /\ last.op \in {"prog", "erase", "sync"}
        /\ last.io = "fail")
        => /\ last.exc = "none"
           /\ last.ret < 0

\* C8: a raw-disk call whose device transfers the request in full, from
\* whatever cursor position the earlier calls left, returns what UserContext
\* returns for the same call on a buffer that holds the disk's bytes, and
\* leaves the disk holding what that buffer holds afterwards; so equal
\* contents and equal call sequences give equal results and equal contents.
C8_SameAsMemory ==
    [][(kind \in RawKinds /\ last'.op \in Ops /\ last'.io = "full") =>
          /\ last'.exc = "none"
          /\ last'.ret = 0
          /\ CASE last'.op = "read" ->
                    /\ medium' = medium
                    /\ last'.data = UserContext_read_data(
                                        medium, last'.block, last'.off, last'.size)
               [] last'.op = "prog" ->
                    medium' = UserContext_prog_buffer(
                                  medium, last'.block, last'.off, last'.data)
               [] last'.op = "erase" ->
                    medium' = UserContext_erase_buffer(medium, last'.block)
               [] last'.op = "sync" ->
                    medium' = medium]_vars

\* A full read has returned programmed bytes, with the cursor left behind
\* them by the read.
C8_Witness ==
    /\ kind \in RawKinds
    /\ last.op = "read"
    /\ last.io = "full"
    /\ cursor > BlockSize
    /\ \E i \in 1..Len(last.data) : last.data[i] = ZeroByte

\* C9: sync on the in-memory backend returns 0 after any calls, in range or
\* not.
C9_MemSyncSucceeds ==
    (kind = "UserContext" /\ last.op = "sync")
        => (last.exc = "none" /\ last.ret = 0)

\* sync has returned after a call that was out of range.
C9_Witness ==
    /\ kind = "UserContext"
    /\ last.op = "sync"
    /\ ~inRange
    /\ Len(medium) # BlockSize * BlockCount

\* C10: on the in-memory backend, as long as every call is in range, prog
\* changes no byte outside [start, start + len(data)), erase no byte outside
\* its block, read and sync no byte at all, and the buffer stays
\* block_size * block_count bytes long.
C10_MemFrame ==
    [][(kind = "UserContext" /\ last'.op \in Ops /\ inRange') =>
          /\ Len(medium) = BlockSize * BlockCount
          /\ Len(medium') = BlockSize * BlockCount
          /\ \A i \in 1..(BlockSize * BlockCount) :
                medium'[i] # medium[i] =>
                   LET start == last'.block * BlockSize + last'.off
                   IN  /\ last'.op \in {"prog", "erase"}
                       /\ i > start
                       /\ i <= start + last'.size]_vars

\* An in-range erase has returned and the other block still holds
\* programmed bytes.
C10_Witness ==
    /\ kind = "UserContext"
    /\ inRange
    /\ last.op = "erase"
    /\ \E i \in 1..Len(medium) : medium[i] = ZeroByte

====
